---- MODULE Spec2Model ----
(***************************************************************************)
(* A model of the two parts of gfx that the specification covers:          *)
(*   - src/extra/canvas.rs         : Canvas, into_canvas, the Stream       *)
(*                                   accessors and present();              *)
(*   - src/backend/vulkan/src/lib.rs: create(), PhysicalDeviceInfo::new,   *)
(*                                   Backend and Error's Debug format.     *)
(* The collaborators of Canvas (Device, Factory, Window, Renderer) and the *)
(* native driver behind create() are observed through logs of the calls    *)
(* the code makes on them.                                                 *)
(***************************************************************************)
EXTENDS Integers, Sequences, FiniteSets, TLC

(***************************************************************************)
(* Bounds of the model.                                                    *)
(***************************************************************************)
\* present() is invoked at most this many times
MaxPresents == 3
\* commands recorded through access() between two present() calls
MaxCmds == 2
\* bytes in an application or engine name
MaxNameLen == 1
\* physical devices a driver has
MaxDevices == 5
\* queue families a physical device has
MaxFamilies == 5

VARIABLES
    \* ---- canvas.rs ----
    input,        \* the (W, D, F) triple into_canvas() consumes
    canvas,       \* the Canvas value: NoCanvas before into_canvas()
    calls,        \* collaborator calls observed so far, in order
    present_pc,   \* position inside present(): the next statement to run
    frames,       \* present() invocations that have returned
    recorded,     \* commands recorded so far (numbers the next command)
    ret,          \* what the last Stream accessor handed out
    \* ---- backend/vulkan/src/lib.rs ----
    pc,               \* position inside create(), or what became of it
    app_info,         \* create()'s argument
    c_app_name,       \* local: CString of the application name
    c_engine_name,    \* local: CString of the engine name
    vk_info,          \* local: vk::ApplicationInfo
    create_info,      \* local: vk::InstanceCreateInfo
    dynamic_lib,      \* local: the DynamicLibrary
    lib,              \* local: vk::Static
    entry_points,     \* local: vk::EntryPoints
    instance,         \* local: vk::Instance
    inst_pointers,    \* local: vk::InstancePointers
    physical_devices, \* local: [vk::PhysicalDevice; 4]
    num,              \* local: the in/out device count
    devices,          \* local: Vec<PhysicalDeviceInfo> being collected
    backend,          \* the Backend create() returned
    panic_msg,        \* the message of the panic that ended create()
    driver_calls      \* calls made on the loader and the driver, in order

canvas_vars == <<input, canvas, calls, present_pc, frames, recorded, ret>>

backend_vars == <<pc, app_info, c_app_name, c_engine_name, vk_info, create_info,
                  dynamic_lib, lib, entry_points, instance, inst_pointers,
                  physical_devices, num, devices, backend, panic_msg,
                  driver_calls>>

vars == <<canvas_vars, backend_vars>>

(***************************************************************************)
(* canvas.rs                                                               *)
(***************************************************************************)
Outputs == {"w1", "w2"}
Devices == {"d1", "d2"}
Factories == {"f1", "f2"}

NoCanvas == [tag |-> "none"]
NoRet == [op |-> "none"]

\* Renderer front-end (render crate): a renderer is its command buffer.
\* Factory::create_renderer hands out a renderer ready to record.
create_renderer == <<>>
\* Renderer::as_buffer: the command-buffer view handed to Device::submit.
as_buffer(r) == r
\* Renderer::reset: back to the state of a freshly created renderer.
reset(r) == <<>>
\* A drawing command recorded through the &mut Renderer access() hands out.
record(r, c) == Append(r, c)

Call(obj, op) == [obj |-> obj, op |-> op]
Submit(obj, buf) == [obj |-> obj, op |-> "submit", arg |-> buf]

CanvasInit ==
    /\ input \in [output : Outputs, device : Devices, factory : Factories]
    /\ canvas = NoCanvas
    /\ calls = <<>>
    /\ present_pc = "idle"
    /\ frames = 0
    /\ recorded = 0
    /\ ret = NoRet

\* mutant of into_canvas: the assembly step also runs the factory's cleanup
into_canvas_with_cleanup ==
    /\ canvas = NoCanvas
    /\ canvas' = [tag |-> "canvas", output |-> input.output,
                  device |-> input.device, factory |-> input.factory,
                  renderer |-> create_renderer]
    /\ calls' = calls \o <<Call(input.factory, "create_renderer"),
                           Call(input.factory, "cleanup")>>
    /\ UNCHANGED <<input, present_pc, frames, recorded, ret>>
    /\ UNCHANGED backend_vars

\* impl IntoCanvas for (W, D, F): fn into_canvas(mut self)
into_canvas ==
    /\ canvas = NoCanvas
    /\ canvas' = [tag |-> "canvas", output |-> input.output,
                  device |-> input.device, factory |-> input.factory,
                  renderer |-> create_renderer]
    /\ calls' = Append(calls, Call(input.factory, "create_renderer"))
    /\ UNCHANGED <<input, present_pc, frames, recorded, ret>>
    /\ UNCHANGED backend_vars

\* &mut self / &self: no accessor runs while present() holds the canvas
Borrowable == canvas # NoCanvas /\ present_pc = "idle"

\* commands sitting in the renderer that were recorded in the current frame
CmdsThisFrame == Cardinality({i \in DOMAIN canvas.renderer :
                                 canvas.renderer[i].frame = frames})

\* Stream::get_output
get_output ==
    /\ Borrowable
    /\ ret' = [op |-> "get_output", output |-> canvas.output]
    /\ UNCHANGED <<input, canvas, calls, present_pc, frames, recorded>>
    /\ UNCHANGED backend_vars

\* Stream::access, and the caller recording one command through the
\* &mut Renderer it was handed
access ==
    /\ Borrowable
    /\ CmdsThisFrame < MaxCmds
    /\ canvas' = [canvas EXCEPT !.renderer =
                     record(@, [id |-> recorded + 1, frame |-> frames])]
    /\ recorded' = recorded + 1
    /\ ret' = [op |-> "access", output |-> canvas.output]
    /\ UNCHANGED <<input, calls, present_pc, frames>>
    /\ UNCHANGED backend_vars

\* mutant of present_submit: the renderer is reset before its buffer is taken
present_submit_after_reset ==
    /\ Borrowable
    /\ frames < MaxPresents
    /\ calls' = Append(calls, Submit(canvas.device,
                                     as_buffer(reset(canvas.renderer))))
    /\ present_pc' = "swap_buffers"
    /\ UNCHANGED <<input, canvas, frames, recorded, ret>>
    /\ UNCHANGED backend_vars

\* present(), line 74: self.device.submit(self.renderer.as_buffer())
present_submit ==
    /\ Borrowable
    /\ frames < MaxPresents
    /\ calls' = Append(calls, Submit(canvas.device, as_buffer(canvas.renderer)))
    /\ present_pc' = "swap_buffers"
    /\ UNCHANGED <<input, canvas, frames, recorded, ret>>
    /\ UNCHANGED backend_vars

\* mutant of present_swap_buffers: the swap is forgotten
present_swap_buffers_skipped ==
    /\ present_pc = "swap_buffers"
    /\ present_pc' = "after_frame"
    /\ UNCHANGED <<input, canvas, calls, frames, recorded, ret>>
    /\ UNCHANGED backend_vars

\* present(), line 75: self.output.swap_buffers()
present_swap_buffers ==
    /\ present_pc = "swap_buffers"
    /\ calls' = Append(calls, Call(canvas.output, "swap_buffers"))
    /\ present_pc' = "after_frame"
    /\ UNCHANGED <<input, canvas, frames, recorded, ret>>
    /\ UNCHANGED backend_vars

\* present(), line 76: self.device.after_frame()
present_after_frame ==
    /\ present_pc = "after_frame"
    /\ calls' = Append(calls, Call(canvas.device, "after_frame"))
    /\ present_pc' = "cleanup"
    /\ UNCHANGED <<input, canvas, frames, recorded, ret>>
    /\ UNCHANGED backend_vars

\* present(), line 77: self.factory.cleanup()
present_cleanup ==
    /\ present_pc = "cleanup"
    /\ calls' = Append(calls, Call(canvas.factory, "cleanup"))
    /\ present_pc' = "reset"
    /\ UNCHANGED <<input, canvas, frames, recorded, ret>>
    /\ UNCHANGED backend_vars

\* mutant of present_reset: present() returns without resetting the renderer
present_reset_forgotten ==
    /\ present_pc = "reset"
    /\ calls' = Append(calls, Call("renderer", "reset"))
    /\ present_pc' = "idle"
    /\ frames' = frames + 1
    /\ UNCHANGED <<input, canvas, recorded, ret>>
    /\ UNCHANGED backend_vars

\* present(), line 78: self.renderer.reset(), then present() returns
present_reset ==
    /\ present_pc = "reset"
    /\ canvas' = [canvas EXCEPT !.renderer = reset(@)]
    /\ calls' = Append(calls, Call("renderer", "reset"))
    /\ present_pc' = "idle"
    /\ frames' = frames + 1
    /\ UNCHANGED <<input, recorded, ret>>
    /\ UNCHANGED backend_vars

CanvasNext ==
    \/ into_canvas
    \/ get_output
    \/ access
    \/ present_submit
    \/ present_swap_buffers
    \/ present_after_frame
    \/ present_cleanup
    \/ present_reset

(***************************************************************************)
(* backend/vulkan/src/lib.rs                                               *)
(***************************************************************************)
Min(a, b) == IF a < b THEN a ELSE b

\* the length of [vk::PhysicalDevice; 4]
ProbeCapacity == 4
\* let mut num = 4 in PhysicalDeviceInfo::new
QueueFamilyCapacity == 4
\* apiVersion: 0x400000
ApiVersion == 4194304
\* mem::zeroed() for a handle; the instance argument of the global lookups
NullHandle == 0

\* bytes a &str may hold: NUL and one other
Bytes == {0, 1}
Names == UNION {[1..k -> Bytes] : k \in 0..MaxNameLen}
Versions == {1, 2}

\* struct ApplicationInfo<'a>
ApplicationInfo == [application_name : Names, application_version : Versions,
                    engine_name : Names, engine_version : Versions]
None == [tag |-> "None"]
Some(info) == [tag |-> "Some", info |-> info]
AppInfoArgs == {None} \cup {Some(info) : info \in ApplicationInfo}

\* CString::new(s) is Err when s holds a NUL byte; unwrap() then panics
CStringNewOk(s) == \A i \in DOMAIN s : s[i] # 0
\* CString::new(s): the bytes of s followed by the terminating NUL
CStringNew(s) == Append(s, 0)

\* what a reader of a C string pointer sees: the bytes before the first NUL
RECURSIVE CStrRead(_)
CStrRead(buf) ==
    IF buf = <<>> \/ Head(buf) = 0 THEN <<>>
    ELSE <<Head(buf)>> \o CStrRead(Tail(buf))

\* a local that is declared and not assigned, and one that went out of scope
Unset == [state |-> "unset"]
Dropped == [state |-> "dropped"]
DropLocal(x) == IF x.state = "live" THEN Dropped ELSE x

NullPtr == "null"

\* vk::Result codes the match in Error::fmt names
WellKnown == {"SUCCESS", "NOT_READY", "TIMEOUT", "EVENT_SET", "EVENT_RESET",
              "INCOMPLETE", "ERROR_OUT_OF_HOST_MEMORY",
              "ERROR_OUT_OF_DEVICE_MEMORY", "ERROR_INITIALIZATION_FAILED",
              "ERROR_DEVICE_LOST", "ERROR_MEMORY_MAP_FAILED",
              "ERROR_LAYER_NOT_PRESENT", "ERROR_EXTENSION_NOT_PRESENT",
              "ERROR_FEATURE_NOT_PRESENT", "ERROR_INCOMPATIBLE_DRIVER",
              "ERROR_TOO_MANY_OBJECTS", "ERROR_FORMAT_NOT_SUPPORTED",
              "ERROR_SURFACE_LOST_KHR", "ERROR_NATIVE_WINDOW_IN_USE_KHR",
              "SUBOPTIMAL_KHR", "ERROR_OUT_OF_DATE_KHR",
              "ERROR_INCOMPATIBLE_DISPLAY_KHR", "ERROR_VALIDATION_FAILED_EXT"}
\* codes of later API revisions, which the match does not name
Unclassified == {"ERROR_FRAGMENTED_POOL", "ERROR_INVALID_SHADER_NV"}
\* vk::Result
Result == WellKnown \cup Unclassified

\* mutant of ErrorFmt: two arms of the match carry each other's string
ErrorFmtArmsSwapped(status) ==
    CASE status = "ERROR_INCOMPATIBLE_DRIVER" -> "too many objects"
      [] status = "ERROR_TOO_MANY_OBJECTS" -> "incompatible driver"
      [] status = "SUCCESS" -> "success"
      [] OTHER -> "unknown"

\* mutant of ErrorFmt: the arm of EVENT_RESET was copied from EVENT_SET and
\* kept its string
ErrorFmtCopiedArm(status) ==
    CASE status = "SUCCESS" -> "success"
      [] status = "NOT_READY" -> "not ready"
      [] status = "TIMEOUT" -> "timeout"
      [] status = "EVENT_SET" -> "event_set"
      [] status = "EVENT_RESET" -> "event_set"
      [] status = "INCOMPLETE" -> "incomplete"
      [] status = "ERROR_OUT_OF_HOST_MEMORY" -> "out of host memory"
      [] status = "ERROR_OUT_OF_DEVICE_MEMORY" -> "out of device memory"
      [] status = "ERROR_INITIALIZATION_FAILED" -> "initialization failed"
      [] status = "ERROR_DEVICE_LOST" -> "device lost"
      [] status = "ERROR_MEMORY_MAP_FAILED" -> "memory map failed"
      [] status = "ERROR_LAYER_NOT_PRESENT" -> "layer not present"
      [] status = "ERROR_EXTENSION_NOT_PRESENT" -> "extension not present"
      [] status = "ERROR_FEATURE_NOT_PRESENT" -> "feature not present"
      [] status = "ERROR_INCOMPATIBLE_DRIVER" -> "incompatible driver"
      [] status = "ERROR_TOO_MANY_OBJECTS" -> "too many objects"
      [] status = "ERROR_FORMAT_NOT_SUPPORTED" -> "format not supported"
      [] status = "ERROR_SURFACE_LOST_KHR" -> "surface lost (KHR)"
      [] status = "ERROR_NATIVE_WINDOW_IN_USE_KHR" -> "native window in use (KHR)"
      [] status = "SUBOPTIMAL_KHR" -> "suboptimal (KHR)"
      [] status = "ERROR_OUT_OF_DATE_KHR" -> "out of date (KHR)"
      [] status = "ERROR_INCOMPATIBLE_DISPLAY_KHR" -> "incompatible display (KHR)"
      [] status = "ERROR_VALIDATION_FAILED_EXT" -> "validation failed (EXT)"
      [] OTHER -> "unknown"

\* impl fmt::Debug for Error
ErrorFmt(status) ==
    CASE status = "SUCCESS" -> "success"
      [] status = "NOT_READY" -> "not ready"
      [] status = "TIMEOUT" -> "timeout"
      [] status = "EVENT_SET" -> "event_set"
      [] status = "EVENT_RESET" -> "event_reset"
      [] status = "INCOMPLETE" -> "incomplete"
      [] status = "ERROR_OUT_OF_HOST_MEMORY" -> "out of host memory"
      [] status = "ERROR_OUT_OF_DEVICE_MEMORY" -> "out of device memory"
      [] status = "ERROR_INITIALIZATION_FAILED" -> "initialization failed"
      [] status = "ERROR_DEVICE_LOST" -> "device lost"
      [] status = "ERROR_MEMORY_MAP_FAILED" -> "memory map failed"
      [] status = "ERROR_LAYER_NOT_PRESENT" -> "layer not present"
      [] status = "ERROR_EXTENSION_NOT_PRESENT" -> "extension not present"
      [] status = "ERROR_FEATURE_NOT_PRESENT" -> "feature not present"
      [] status = "ERROR_INCOMPATIBLE_DRIVER" -> "incompatible driver"
      [] status = "ERROR_TOO_MANY_OBJECTS" -> "too many objects"
      [] status = "ERROR_FORMAT_NOT_SUPPORTED" -> "format not supported"
      [] status = "ERROR_SURFACE_LOST_KHR" -> "surface lost (KHR)"
      [] status = "ERROR_NATIVE_WINDOW_IN_USE_KHR" -> "native window in use (KHR)"
      [] status = "SUBOPTIMAL_KHR" -> "suboptimal (KHR)"
      [] status = "ERROR_OUT_OF_DATE_KHR" -> "out of date (KHR)"
      [] status = "ERROR_INCOMPATIBLE_DISPLAY_KHR" -> "incompatible display (KHR)"
      [] status = "ERROR_VALIDATION_FAILED_EXT" -> "validation failed (EXT)"
      [] OTHER -> "unknown"

NoBackend == [tag |-> "none"]
NoPanic == [site |-> "none", what |-> "none"]

BackendIdle ==
    /\ pc = "idle"
    /\ app_info = None
    /\ c_app_name = Unset
    /\ c_engine_name = Unset
    /\ vk_info = Unset
    /\ create_info = Unset
    /\ dynamic_lib = Unset
    /\ lib = Unset
    /\ entry_points = Unset
    /\ instance = NullHandle
    /\ inst_pointers = Unset
    /\ physical_devices = <<>>
    /\ num = 0
    /\ devices = <<>>
    /\ backend = NoBackend
    /\ panic_msg = NoPanic
    /\ driver_calls = <<>>

\* the one canvas state the backend's behaviours are explored beside
CanvasParked ==
    /\ input = [output |-> "w1", device |-> "d1", factory |-> "f1"]
    /\ canvas = NoCanvas
    /\ calls = <<>>
    /\ present_pc = "idle"
    /\ frames = 0
    /\ recorded = 0
    /\ ret = NoRet

BackendInit == BackendIdle /\ CanvasParked

\* a panic unwinds create(): its locals are dropped, and dropping an open
\* DynamicLibrary unloads it
Unwound(log) ==
    IF dynamic_lib.state = "open" THEN Append(log, [fn |-> "dlclose"]) ELSE log

Panic(site, what, log) ==
    /\ pc' = "panicked"
    /\ panic_msg' = [site |-> site, what |-> what]
    /\ driver_calls' = Unwound(log)
    /\ dynamic_lib' = IF dynamic_lib.state = "open" THEN [state |-> "closed"]
                      ELSE dynamic_lib
    /\ c_app_name' = DropLocal(c_app_name)
    /\ c_engine_name' = DropLocal(c_engine_name)
    /\ vk_info' = DropLocal(vk_info)
    /\ create_info' = DropLocal(create_info)

\* pub fn create(app_info: Option<ApplicationInfo>) is called
create ==
    /\ pc = "idle"
    /\ \E arg \in AppInfoArgs : app_info' = arg
    /\ pc' = "open"
    /\ UNCHANGED <<c_app_name, c_engine_name, vk_info, create_info, dynamic_lib,
                   lib, entry_points, instance, inst_pointers, physical_devices,
                   num, devices, backend, panic_msg, driver_calls>>
    /\ UNCHANGED canvas_vars

\* line 96: DynamicLibrary::open(Some(Path::new("libvulkan.so"))).unwrap()
create_open ==
    /\ pc = "open"
    /\ \E ok \in BOOLEAN :
         LET log == Append(driver_calls, [fn |-> "DynamicLibrary::open",
                                          path |-> "libvulkan.so", ok |-> ok])
         IN IF ok
            THEN /\ dynamic_lib' = [state |-> "open"]
                 /\ driver_calls' = log
                 /\ pc' = "load_static"
                 /\ UNCHANGED <<c_app_name, c_engine_name, vk_info, create_info,
                                panic_msg>>
            ELSE Panic("DynamicLibrary::open", "unwrap on Err", log)
    /\ UNCHANGED <<app_info, lib, entry_points, instance, inst_pointers,
                   physical_devices, num, devices, backend>>
    /\ UNCHANGED canvas_vars

\* lines 97-100: vk::Static::load, each name through
\* dynamic_lib.symbol(name).unwrap()
create_load_static ==
    /\ pc = "load_static"
    /\ \E found \in BOOLEAN :
         LET log == Append(driver_calls, [fn |-> "DynamicLibrary::symbol",
                                          found |-> found])
         IN IF found
            THEN /\ lib' = [state |-> "loaded"]
                 /\ driver_calls' = log
                 /\ pc' = "load_entry_points"
                 /\ UNCHANGED <<c_app_name, c_engine_name, vk_info, create_info,
                                dynamic_lib, panic_msg>>
            ELSE /\ Panic("DynamicLibrary::symbol", "unwrap on Err", log)
                 /\ UNCHANGED lib
    /\ UNCHANGED <<app_info, entry_points, instance, inst_pointers,
                   physical_devices, num, devices, backend>>
    /\ UNCHANGED canvas_vars

\* lines 101-103: vk::EntryPoints::load through lib.GetInstanceProcAddr(0, name)
create_load_entry_points ==
    /\ pc = "load_entry_points"
    /\ entry_points' = [state |-> "loaded", instance |-> NullHandle]
    /\ driver_calls' = Append(driver_calls,
                              [fn |-> "GetInstanceProcAddr", table |-> "EntryPoints",
                               instance |-> NullHandle])
    /\ pc' = "request"
    /\ UNCHANGED <<app_info, c_app_name, c_engine_name, vk_info, create_info,
                   dynamic_lib, lib, instance, inst_pointers, physical_devices,
                   num, devices, backend, panic_msg>>
    /\ UNCHANGED canvas_vars

\* mutant of VkApplicationInfo: the two version fields are filled crosswise
VkApplicationInfoVersionsCrossed(info) ==
    [state |-> "live",
     sType |-> "STRUCTURE_TYPE_APPLICATION_INFO",
     pNext |-> NullPtr,
     pApplicationName |-> "&c_app_name",
     applicationVersion |-> info.engine_version,
     pEngineName |-> "&c_engine_name",
     engineVersion |-> info.application_version,
     apiVersion |-> ApiVersion]

\* lines 108-116: the vk::ApplicationInfo built from info
VkApplicationInfo(info) ==
    [state |-> "live",
     sType |-> "STRUCTURE_TYPE_APPLICATION_INFO",
     pNext |-> NullPtr,
     pApplicationName |-> "&c_app_name",
     applicationVersion |-> info.application_version,
     pEngineName |-> "&c_engine_name",
     engineVersion |-> info.engine_version,
     apiVersion |-> ApiVersion]

\* lines 122-131: the vk::InstanceCreateInfo around info_ptr
InstanceCreateInfo(info_ptr) ==
    [state |-> "live",
     sType |-> "STRUCTURE_TYPE_INSTANCE_CREATE_INFO",
     pNext |-> NullPtr,
     flags |-> 0,
     pApplicationInfo |-> info_ptr,
     enabledLayerCount |-> 0,
     ppEnabledLayerNames |-> NullPtr,
     enabledExtensionCount |-> 0,
     ppEnabledExtensionNames |-> NullPtr]

\* mutant of CStringLocal: the CString is a temporary, gone at the end of
\* the statement that took its pointer
CStringTemporary(s) == [state |-> "dropped", bytes |-> CStringNew(s)]

\* lines 92-93, 106-107: the CString is bound to a local declared at the top
\* of create(), so it lives until create() ends
CStringLocal(s) == [state |-> "live", bytes |-> CStringNew(s)]

\* lines 105-131: info_ptr and create_info
create_request ==
    /\ pc = "request"
    /\ IF app_info.tag = "Some"
       THEN LET info == app_info.info IN
            IF ~CStringNewOk(info.application_name)
            THEN /\ Panic("CString::new(application_name)", "unwrap on Err",
                          driver_calls)
            ELSE IF ~CStringNewOk(info.engine_name)
            THEN /\ Panic("CString::new(engine_name)", "unwrap on Err",
                          driver_calls)
            ELSE /\ c_app_name' = CStringLocal(info.application_name)
                 /\ c_engine_name' = CStringLocal(info.engine_name)
                 /\ vk_info' = VkApplicationInfo(info)
                 /\ create_info' = InstanceCreateInfo("&vk_info")
                 /\ pc' = "create_instance"
                 /\ UNCHANGED <<dynamic_lib, panic_msg, driver_calls>>
       ELSE /\ create_info' = InstanceCreateInfo(NullPtr)
            /\ pc' = "create_instance"
            /\ UNCHANGED <<c_app_name, c_engine_name, vk_info, dynamic_lib,
                           panic_msg, driver_calls>>
    /\ UNCHANGED <<app_info, lib, entry_points, instance, inst_pointers,
                   physical_devices, num, devices, backend>>
    /\ UNCHANGED canvas_vars

\* the local a pointer of the request points at
Deref(p) ==
    CASE p = "&vk_info" -> vk_info
      [] p = "&c_app_name" -> c_app_name
      [] p = "&c_engine_name" -> c_engine_name

\* what the driver reads through pApplicationInfo during CreateInstance
ReadApplicationInfo(p) ==
    IF p = NullPtr THEN [present |-> FALSE]
    ELSE LET r == Deref(p) IN
         IF r.state # "live" THEN [present |-> TRUE, dangling |-> TRUE]
         ELSE [present |-> TRUE,
               dangling |-> Deref(r.pApplicationName).state # "live"
                              \/ Deref(r.pEngineName).state # "live",
               application_name |-> CStrRead(Deref(r.pApplicationName).bytes),
               application_version |-> r.applicationVersion,
               engine_name |-> CStrRead(Deref(r.pEngineName).bytes),
               engine_version |-> r.engineVersion,
               api_version |-> r.apiVersion]

\* handles the driver gives out for a created instance
InstanceHandles == {1}

\* mutant of InstanceCreated: the status of CreateInstance is not looked at
InstanceCreatedUnchecked(status) == TRUE

\* line 136: the negation of status != vk::SUCCESS
InstanceCreated(status) == status = "SUCCESS"

\* lines 133-140: entry_points.CreateInstance(&create_info, null, &mut ptr)
create_instance ==
    /\ pc = "create_instance"
    /\ \E status \in Result, handle \in InstanceHandles :
         LET ptr == IF status = "SUCCESS" THEN handle ELSE NullHandle
             log == Append(driver_calls,
                      [fn |-> "CreateInstance", table |-> "EntryPoints",
                       pApplicationInfo |-> create_info.pApplicationInfo,
                       read |-> ReadApplicationInfo(create_info.pApplicationInfo),
                       status |-> status, instance |-> ptr])
         IN IF InstanceCreated(status)
            THEN /\ instance' = ptr
                 /\ driver_calls' = log
                 /\ pc' = "load_inst_pointers"
                 /\ UNCHANGED <<c_app_name, c_engine_name, vk_info, create_info,
                                dynamic_lib, panic_msg>>
            ELSE /\ Panic("vkCreateInstance", ErrorFmt(status), log)
                 /\ UNCHANGED instance
    /\ UNCHANGED <<app_info, lib, entry_points, inst_pointers, physical_devices,
                   num, devices, backend>>
    /\ UNCHANGED canvas_vars

\* lines 142-144: vk::InstancePointers::load through
\* lib.GetInstanceProcAddr(instance, name)
create_load_inst_pointers ==
    /\ pc = "load_inst_pointers"
    /\ inst_pointers' = [state |-> "loaded", instance |-> instance]
    /\ driver_calls' = Append(driver_calls,
                              [fn |-> "GetInstanceProcAddr",
                               table |-> "InstancePointers",
                               instance |-> instance])
    /\ pc' = "enumerate"
    /\ UNCHANGED <<app_info, c_app_name, c_engine_name, vk_info, create_info,
                   dynamic_lib, lib, entry_points, instance, physical_devices,
                   num, devices, backend, panic_msg>>
    /\ UNCHANGED canvas_vars

\* the i-th physical device of the driver
DeviceHandle(i) == 100 + i

\* vkEnumeratePhysicalDevices on a driver with avail devices and room for
\* count_in handles: SUCCESS when all fit, INCOMPLETE when they do not, or an
\* error
EnumerateResults(avail, count_in) ==
    (IF avail > count_in THEN {"INCOMPLETE"} ELSE {"SUCCESS"})
    \cup {"ERROR_OUT_OF_HOST_MEMORY", "ERROR_OUT_OF_DEVICE_MEMORY",
          "ERROR_INITIALIZATION_FAILED"}

\* how many handles that call writes, which is what it leaves in the count
EnumerateWritten(avail, count_in, status) ==
    IF status \in {"SUCCESS", "INCOMPLETE"} THEN Min(avail, count_in)
    ELSE count_in

\* mutant of Enumerated: INCOMPLETE passes for success
EnumeratedOrIncomplete(status) == status \in {"SUCCESS", "INCOMPLETE"}

\* line 151: the negation of status != vk::SUCCESS
Enumerated(status) == status = "SUCCESS"

\* lines 146-153: inst_pointers.EnumeratePhysicalDevices(instance, &mut num, ..)
create_enumerate ==
    /\ pc = "enumerate"
    /\ \E avail \in 0..MaxDevices :
       \E status \in EnumerateResults(avail, ProbeCapacity) :
         LET written == EnumerateWritten(avail, ProbeCapacity, status)
             filled == IF status \in {"SUCCESS", "INCOMPLETE"} THEN written ELSE 0
             log == Append(driver_calls,
                      [fn |-> "EnumeratePhysicalDevices",
                       table |-> "InstancePointers",
                       instance |-> instance, count_in |-> ProbeCapacity,
                       avail |-> avail, count_out |-> written,
                       status |-> status])
         IN /\ physical_devices' = [i \in 1..ProbeCapacity |->
                                      IF i <= filled THEN DeviceHandle(i)
                                      ELSE NullHandle]
            /\ num' = written
            /\ IF Enumerated(status)
               THEN /\ driver_calls' = log
                    /\ pc' = "devices"
                    /\ UNCHANGED <<c_app_name, c_engine_name, vk_info,
                                   create_info, dynamic_lib, panic_msg>>
               ELSE Panic("vkEnumeratePhysicalDevices", ErrorFmt(status), log)
    /\ UNCHANGED <<app_info, lib, entry_points, instance, inst_pointers,
                   devices, backend>>
    /\ UNCHANGED canvas_vars

\* mutant of QueueFamilies: the length is set to the number of families the
\* device has, whatever the room that was offered
QueueFamiliesUnbounded(dev, nfam) ==
    [i \in 1..nfam |-> [device |-> dev, index |-> i]]

\* lines 61-67: the queue families of dev, of which the driver has nfam, asked
\* for with room for QueueFamilyCapacity
QueueFamilies(dev, nfam) ==
    [i \in 1..Min(nfam, QueueFamilyCapacity) |-> [device |-> dev, index |-> i]]

\* PhysicalDeviceInfo::new(dev, vk)
PhysicalDeviceInfo_new(dev, nfam) ==
    [device |-> dev,
     properties |-> [of |-> dev],
     queue_families |-> QueueFamilies(dev, nfam),
     memory |-> [of |-> dev],
     features |-> [of |-> dev]]

\* mutant of DeviceQueries: the features are left zeroed, never queried
DeviceQueriesWithoutFeatures(dev, nfam) ==
    << [fn |-> "GetPhysicalDeviceProperties", table |-> "InstancePointers",
        device |-> dev],
       [fn |-> "GetPhysicalDeviceQueueFamilyProperties",
        table |-> "InstancePointers", device |-> dev,
        count_in |-> QueueFamilyCapacity, filled |-> TRUE, avail |-> nfam,
        count_out |-> Min(nfam, QueueFamilyCapacity)],
       [fn |-> "GetPhysicalDeviceMemoryProperties", table |-> "InstancePointers",
        device |-> dev] >>

\* the driver calls PhysicalDeviceInfo::new makes, in the order of the fields
DeviceQueries(dev, nfam) ==
    << [fn |-> "GetPhysicalDeviceProperties", table |-> "InstancePointers",
        device |-> dev],
       [fn |-> "GetPhysicalDeviceQueueFamilyProperties",
        table |-> "InstancePointers", device |-> dev,
        count_in |-> QueueFamilyCapacity, filled |-> TRUE, avail |-> nfam,
        count_out |-> Min(nfam, QueueFamilyCapacity)],
       [fn |-> "GetPhysicalDeviceMemoryProperties", table |-> "InstancePointers",
        device |-> dev],
       [fn |-> "GetPhysicalDeviceFeatures", table |-> "InstancePointers",
        device |-> dev] >>

\* mutant of NextDevice: the slice is walked from its end
NextDeviceFromEnd(arr, done) == arr[num - done]

\* line 154: physical_devices[..num].iter() yields the slice front to back;
\* done elements were already mapped
NextDevice(arr, done) == arr[done + 1]

\* lines 154-156: the next element of physical_devices[..num] is mapped
create_device_info ==
    /\ pc = "devices"
    /\ Len(devices) < num
    /\ \E nfam \in 1..MaxFamilies :
         LET dev == NextDevice(physical_devices, Len(devices)) IN
         /\ devices' = Append(devices, PhysicalDeviceInfo_new(dev, nfam))
         /\ driver_calls' = driver_calls \o DeviceQueries(dev, nfam)
    /\ UNCHANGED <<pc, app_info, c_app_name, c_engine_name, vk_info, create_info,
                   dynamic_lib, lib, entry_points, instance, inst_pointers,
                   physical_devices, num, backend, panic_msg>>
    /\ UNCHANGED canvas_vars

\* lines 158-165: the Backend is returned and create()'s other locals end
create_return ==
    /\ pc = "devices"
    /\ Len(devices) = num
    /\ backend' = [tag |-> "Backend",
                   dynamic_lib |-> dynamic_lib,
                   library |-> lib,
                   instance |-> instance,
                   inst_pointers |-> inst_pointers,
                   functions |-> entry_points,
                   devices |-> devices]
    /\ c_app_name' = DropLocal(c_app_name)
    /\ c_engine_name' = DropLocal(c_engine_name)
    /\ vk_info' = DropLocal(vk_info)
    /\ create_info' = DropLocal(create_info)
    /\ pc' = "returned"
    /\ UNCHANGED <<app_info, dynamic_lib, lib, entry_points, instance,
                   inst_pointers, physical_devices, num, devices, panic_msg,
                   driver_calls>>
    /\ UNCHANGED canvas_vars

\* lines 82-89: Backend has no Drop of its own, so dropping it drops its
\* fields in declaration order; only dynamic_lib does anything, it unloads
drop_backend ==
    /\ pc = "returned"
    /\ dynamic_lib' = [state |-> "closed"]
    /\ driver_calls' = Append(driver_calls, [fn |-> "dlclose"])
    /\ pc' = "dropped"
    /\ UNCHANGED <<app_info, c_app_name, c_engine_name, vk_info, create_info,
                   lib, entry_points, instance, inst_pointers, physical_devices,
                   num, devices, backend, panic_msg>>
    /\ UNCHANGED canvas_vars

BackendNext ==
    \/ create
    \/ create_open
    \/ create_load_static
    \/ create_load_entry_points
    \/ create_request
    \/ create_instance
    \/ create_load_inst_pointers
    \/ create_enumerate
    \/ create_device_info
    \/ create_return
    \/ drop_backend

\* the canvas's behaviours are explored with create() not yet called
CanvasSpecInit == CanvasInit /\ BackendIdle

CanvasSpec == CanvasSpecInit /\ [][CanvasNext]_vars

BackendSpec == BackendInit /\ [][BackendNext]_vars

(***************************************************************************)
(* Properties of canvas.rs, checked under CanvasSpec.                      *)
(***************************************************************************)
\* the collaborator calls of one present(), in the order the contract gives
PresentOrder == <<"submit", "swap_buffers", "after_frame", "cleanup", "reset">>

\* calls the present() in progress has made so far
PresentProgress ==
    CASE present_pc = "idle" -> 0
      [] present_pc = "swap_buffers" -> 1
      [] present_pc = "after_frame" -> 2
      [] present_pc = "cleanup" -> 3
      [] present_pc = "reset" -> 4

\* the calls observed after into_canvas()'s create_renderer
PresentCalls == SubSeq(calls, 2, Len(calls))

\* the collaborator of the canvas that operation op belongs to
Receiver(op) ==
    CASE op \in {"submit", "after_frame"} -> canvas.device
      [] op = "swap_buffers" -> canvas.output
      [] op = "cleanup" -> canvas.factory
      [] op = "reset" -> "renderer"

\* C1: the calls observed from present() are, for every invocation, exactly
\* submit(renderer.as_buffer()), swap_buffers, after_frame, cleanup, reset,
\* each once and in that order, on the canvas's own collaborators; the calls
\* of the invocations follow each other in blocks of five, never interleaved.
C1_PresentCallOrder ==
    canvas # NoCanvas =>
        /\ Len(PresentCalls) = 5 * frames + PresentProgress
        /\ \A i \in DOMAIN PresentCalls :
              /\ PresentCalls[i].op = PresentOrder[((i - 1) % 5) + 1]
              /\ PresentCalls[i].obj = Receiver(PresentCalls[i].op)
        /\ present_pc # "idle" =>
              PresentCalls[5 * frames + 1].arg = as_buffer(canvas.renderer)

\* C1 witness: three consecutive present() calls have returned
C1_ThreePresentsDone ==
    /\ frames = 3
    /\ present_pc = "idle"
    /\ Len(calls) = 16

\* which present() the submit at position i of calls belongs to
SubmitIndex(i) == Cardinality({m \in 1..i : calls[m].op = "submit"})

\* C2: no command recorded before the k-th present() is in the buffer a later
\* present() submits, and between present() calls the renderer holds only
\* what was recorded since the last one: after present() returns it is as
\* into_canvas() left it.
C2_NoLeakBetweenFrames ==
    /\ \A i \in DOMAIN calls :
          calls[i].op = "submit" =>
              \A j \in DOMAIN calls[i].arg :
                  calls[i].arg[j].frame >= SubmitIndex(i) - 1
    /\ (canvas # NoCanvas /\ present_pc = "idle") =>
          /\ \A j \in DOMAIN canvas.renderer : canvas.renderer[j].frame = frames
          /\ CmdsThisFrame = 0 => canvas.renderer = create_renderer

\* C2 witness: record, present, record, present, both frames with commands
C2_TwoRecordedFrames ==
    /\ frames = 2
    /\ present_pc = "idle"
    /\ calls[2].arg # <<>>
    /\ calls[7].arg # <<>>
    /\ canvas.renderer = <<>>

\* C9: create_renderer is called once in the coordinator's life, by
\* into_canvas(), which calls nothing else; the Canvas holds the output,
\* device and factory of the triple it was made from.
C9_OneRendererCreated ==
    /\ canvas = NoCanvas => calls = <<>>
    /\ canvas # NoCanvas =>
          /\ calls[1] = Call(input.factory, "create_renderer")
          /\ \A i \in 2..Len(calls) : calls[i].op # "create_renderer"
          /\ (frames = 0 /\ present_pc = "idle") => Len(calls) = 1
          /\ canvas.output = input.output
          /\ canvas.device = input.device
          /\ canvas.factory = input.factory

\* C9 witness: a coordinator that was built, recorded on, read and presented
C9_CoordinatorUsed ==
    /\ frames >= 2
    /\ recorded >= 1
    /\ ret.op = "get_output"

(***************************************************************************)
(* Properties of backend/vulkan/src/lib.rs, checked under BackendSpec.     *)
(***************************************************************************)
Logged(i, fn) == driver_calls[i].fn = fn

\* the instance-level table is looked up at position i of driver_calls
InstanceTableLookup(i) ==
    Logged(i, "GetInstanceProcAddr") /\ driver_calls[i].table = "InstancePointers"

\* C3: the instance-level function table is resolved only after
\* CreateInstance returned success with a non-null instance handle, and with
\* that handle; when CreateInstance returns a non-success status the table is
\* never resolved.
C3_InstanceTableAfterInstance ==
    /\ \A i \in DOMAIN driver_calls :
          InstanceTableLookup(i) =>
              /\ driver_calls[i].instance # NullHandle
              /\ \E j \in 1..(i - 1) :
                    /\ Logged(j, "CreateInstance")
                    /\ driver_calls[j].status = "SUCCESS"
                    /\ driver_calls[j].instance = driver_calls[i].instance
    /\ inst_pointers # Unset =>
          /\ instance # NullHandle
          /\ inst_pointers.instance = instance
    /\ (\E j \in DOMAIN driver_calls :
           Logged(j, "CreateInstance") /\ driver_calls[j].status # "SUCCESS") =>
          /\ inst_pointers = Unset
          /\ \A i \in DOMAIN driver_calls : ~InstanceTableLookup(i)

\* C3 witness: the instance-level table has been resolved
C3_InstanceTableResolved ==
    /\ inst_pointers # Unset
    /\ \E i \in DOMAIN driver_calls : InstanceTableLookup(i)

\* a bootstrap step that reported failure
StepFailed(c) ==
    \/ c.fn = "DynamicLibrary::open" /\ ~c.ok
    \/ c.fn = "DynamicLibrary::symbol" /\ ~c.found
    \/ c.fn \in {"CreateInstance", "EnumeratePhysicalDevices"}
         /\ c.status # "SUCCESS"

\* the four per-device queries were made for device dev
DeviceQueried(dev) ==
    \A fn \in {"GetPhysicalDeviceProperties",
               "GetPhysicalDeviceQueueFamilyProperties",
               "GetPhysicalDeviceMemoryProperties",
               "GetPhysicalDeviceFeatures"} :
        \E i \in DOMAIN driver_calls :
            Logged(i, fn) /\ driver_calls[i].device = dev

\* C4: a failed bootstrap step (library open, symbol resolution, instance
\* creation, device enumeration) ends create() in a panic with no Backend;
\* a Backend is returned only when every step succeeded, and it is complete:
\* library open, both tables resolved, a live instance, every device queried.
C4_NoPartialBackend ==
    /\ (\E i \in DOMAIN driver_calls : StepFailed(driver_calls[i])) =>
          pc = "panicked" /\ backend = NoBackend
    /\ pc = "panicked" => backend = NoBackend
    /\ backend # NoBackend =>
          /\ pc \in {"returned", "dropped"}
          /\ \A i \in DOMAIN driver_calls : ~StepFailed(driver_calls[i])
          /\ backend.dynamic_lib.state = "open"
          /\ backend.library.state = "loaded"
          /\ backend.functions.state = "loaded"
          /\ backend.inst_pointers.state = "loaded"
          /\ backend.instance # NullHandle
          /\ \A k \in DOMAIN backend.devices :
                DeviceQueried(backend.devices[k].device)

\* C4 witness: device enumeration failed and create() panicked
C4_EnumerationFailed ==
    /\ pc = "panicked"
    /\ panic_msg.site = "vkEnumeratePhysicalDevices"
    /\ backend = NoBackend

\* C5: when the driver has more physical devices than the probe holds,
\* create() ends in the panic of the enumeration step and returns no Backend;
\* a returned Backend lists every device the driver has.
C5_NoSilentTruncation ==
    \A i \in DOMAIN driver_calls :
        Logged(i, "EnumeratePhysicalDevices") =>
            /\ driver_calls[i].avail > ProbeCapacity =>
                  /\ pc = "panicked"
                  /\ backend = NoBackend
                  /\ panic_msg.site = "vkEnumeratePhysicalDevices"
            /\ backend # NoBackend =>
                  Len(backend.devices) = driver_calls[i].avail

\* C5 witness: a driver with more devices than the probe holds said so
C5_MoreDevicesThanProbe ==
    \E i \in DOMAIN driver_calls :
        /\ Logged(i, "EnumeratePhysicalDevices")
        /\ driver_calls[i].avail > ProbeCapacity
        /\ driver_calls[i].status = "INCOMPLETE"
        /\ panic_msg = [site |-> "vkEnumeratePhysicalDevices",
                        what |-> "incomplete"]

\* C6: for every device, the number of descriptors stored in queue_families
\* is the number of queue families the device has (what a count-only query
\* returns), also for a device with more than 4 of them, unless create()
\* ended in an error.
C6_QueueFamilyCountKept ==
    \A i \in DOMAIN driver_calls :
        Logged(i, "GetPhysicalDeviceQueueFamilyProperties") =>
            \/ pc = "panicked"
            \/ \A k \in DOMAIN devices :
                  devices[k].device = driver_calls[i].device =>
                      Len(devices[k].queue_families) = driver_calls[i].avail

\* C7: once the Backend is torn down, the instance was released through
\* DestroyInstance before the library was unloaded, the library was unloaded
\* once, and no driver entry point was called after that.
C7_InstanceReleasedBeforeUnload ==
    pc = "dropped" =>
        \E j \in DOMAIN driver_calls :
            /\ Logged(j, "dlclose")
            /\ \A m \in DOMAIN driver_calls : Logged(m, "dlclose") => m = j
            /\ j = Len(driver_calls)
            /\ \E i \in 1..(j - 1) :
                  /\ Logged(i, "DestroyInstance")
                  /\ driver_calls[i].instance = backend.instance

\* calls that enumerate or query physical devices
DeviceCalls == {"EnumeratePhysicalDevices", "GetPhysicalDeviceProperties",
                "GetPhysicalDeviceQueueFamilyProperties",
                "GetPhysicalDeviceMemoryProperties",
                "GetPhysicalDeviceFeatures"}

\* C8: when CreateInstance returns a non-success status, create() panics at
\* vkCreateInstance with the category of that status ("incompatible driver"
\* for ERROR_INCOMPATIBLE_DRIVER and for no other status, "unknown" for the
\* codes the taxonomy does not name), returns no Backend, and makes no device
\* enumeration or per-device query afterwards.
C8_CreateInstanceFailureFatal ==
    \A i \in DOMAIN driver_calls :
        (Logged(i, "CreateInstance") /\ driver_calls[i].status # "SUCCESS") =>
            /\ pc = "panicked"
            /\ backend = NoBackend
            /\ panic_msg.site = "vkCreateInstance"
            /\ panic_msg.what = "incompatible driver"
                  <=> driver_calls[i].status = "ERROR_INCOMPATIBLE_DRIVER"
            /\ panic_msg.what = "unknown"
                  <=> driver_calls[i].status \in Unclassified
            /\ panic_msg.what # "success"
            /\ \A j \in DOMAIN driver_calls :
                  j > i => driver_calls[j].fn \notin DeviceCalls

\* C8 witness: the driver answered CreateInstance with incompatible driver
C8_IncompatibleDriver ==
    /\ pc = "panicked"
    /\ panic_msg = [site |-> "vkCreateInstance", what |-> "incompatible driver"]
    /\ \E i \in DOMAIN driver_calls :
          /\ Logged(i, "CreateInstance")
          /\ driver_calls[i].status = "ERROR_INCOMPATIBLE_DRIVER"

\* C10: the request CreateInstance receives has a null application-info
\* pointer for create(None); for create(Some(info)) the pointer is non-null
\* and the driver reads through it info's application name, application
\* version, engine name and engine version, unchanged.
C10_ApplicationInfoPassed ==
    \A i \in DOMAIN driver_calls :
        Logged(i, "CreateInstance") =>
            IF app_info = None
            THEN /\ driver_calls[i].pApplicationInfo = NullPtr
                 /\ ~driver_calls[i].read.present
            ELSE /\ driver_calls[i].pApplicationInfo # NullPtr
                 /\ driver_calls[i].read.present
                 /\ ~driver_calls[i].read.dangling
                 /\ driver_calls[i].read.application_name
                       = app_info.info.application_name
                 /\ driver_calls[i].read.application_version
                       = app_info.info.application_version
                 /\ driver_calls[i].read.engine_name
                       = app_info.info.engine_name
                 /\ driver_calls[i].read.engine_version
                       = app_info.info.engine_version

\* C10 witness: CreateInstance was called for an ApplicationInfo with a
\* name and two different versions
C10_NamedApplication ==
    /\ app_info # None
    /\ app_info.info.application_name # <<>>
    /\ app_info.info.application_version # app_info.info.engine_version
    /\ \E i \in DOMAIN driver_calls : Logged(i, "CreateInstance")

\* the EnumeratePhysicalDevices call of this create(), if it was made
EnumerateCall == {i \in DOMAIN driver_calls : Logged(i, "EnumeratePhysicalDevices")}

\* C11: for a driver with n physical devices, 1 <= n <= 4, a returned Backend
\* has a non-empty devices sequence of exactly n entries in the driver's
\* order: the i-th entry holds the i-th handle the driver wrote.
C11_DevicesInDriverOrder ==
    \A e \in EnumerateCall :
        (backend # NoBackend
            /\ driver_calls[e].avail >= 1
            /\ driver_calls[e].avail <= ProbeCapacity) =>
            /\ Len(backend.devices) = driver_calls[e].avail
            /\ Len(backend.devices) >= 1
            /\ \A i \in DOMAIN backend.devices :
                  backend.devices[i].device = DeviceHandle(i)

\* C11 witness: a Backend returned on a driver with exactly 2 devices
C11_TwoDevices ==
    /\ pc = "returned"
    /\ Len(backend.devices) = 2
    /\ \E e \in EnumerateCall : driver_calls[e].avail = 2

\* C12: the mapping of Error::fmt is total over vk::Result; the well-known
\* codes map to strings of their own, no two to the same one and none to
\* "unknown"; every other code maps to "unknown". A panic of create() that
\* reports a driver status carries "unknown" exactly for such a code.
C12_CategoryMappingTotal ==
    /\ Cardinality({ErrorFmt(a) : a \in WellKnown}) = Cardinality(WellKnown)
    /\ "unknown" \notin {ErrorFmt(a) : a \in WellKnown}
    /\ \A a \in Result \ WellKnown : ErrorFmt(a) = "unknown"
    /\ \A i \in DOMAIN driver_calls :
          (Logged(i, "CreateInstance") /\ driver_calls[i].status # "SUCCESS") =>
              (panic_msg.what = "unknown"
                  <=> driver_calls[i].status \notin WellKnown)

\* C12 witness: create() reported a status the mapping does not name
C12_UnknownReported ==
    /\ pc = "panicked"
    /\ panic_msg = [site |-> "vkCreateInstance", what |-> "unknown"]
    /\ \E i \in DOMAIN driver_calls :
          Logged(i, "CreateInstance") /\ driver_calls[i].status \in Unclassified

\* the per-device queries
QueryCalls == {"GetPhysicalDeviceProperties",
               "GetPhysicalDeviceQueueFamilyProperties",
               "GetPhysicalDeviceMemoryProperties",
               "GetPhysicalDeviceFeatures"}

\* the place of a logged call in the bootstrap order
Stage(c) ==
    CASE c.fn = "DynamicLibrary::open" -> 1
      [] c.fn = "DynamicLibrary::symbol" -> 2
      [] c.fn = "GetInstanceProcAddr" /\ c.table = "EntryPoints" -> 3
      [] c.fn = "CreateInstance" -> 4
      [] c.fn = "GetInstanceProcAddr" /\ c.table = "InstancePointers" -> 5
      [] c.fn = "EnumeratePhysicalDevices" -> 6
      [] c.fn \in QueryCalls -> 7
      [] c.fn = "dlclose" -> 8

\* C13: the driver interactions of create() happen in the order open
\* library, resolve the global entry point, resolve the global table,
\* CreateInstance, resolve the instance-level table, EnumeratePhysicalDevices,
\* per-device queries; enumeration and the queries go through the
\* instance-level table and CreateInstance through the global one; when the
\* Backend is returned the first six steps were each made once and the four
\* queries were made for every device of it, device after device.
C13_BootstrapOrder ==
    /\ \A i \in 1..(Len(driver_calls) - 1) :
          /\ Stage(driver_calls[i]) <= Stage(driver_calls[i + 1])
          /\ Stage(driver_calls[i]) = Stage(driver_calls[i + 1]) =>
                Stage(driver_calls[i]) = 7
    /\ \A i \in DOMAIN driver_calls :
          /\ Stage(driver_calls[i]) \in {6, 7} =>
                driver_calls[i].table = "InstancePointers"
          /\ Stage(driver_calls[i]) = 4 => driver_calls[i].table = "EntryPoints"
    /\ backend # NoBackend =>
          /\ Len(driver_calls) >= 6 + 4 * Len(backend.devices)
          /\ \A i \in 1..6 : Stage(driver_calls[i]) = i
          /\ \A k \in DOMAIN backend.devices :
                LET first == 6 + 4 * (k - 1) + 1 IN
                /\ \A i \in first..(first + 3) :
                      /\ Stage(driver_calls[i]) = 7
                      /\ driver_calls[i].device = backend.devices[k].device
                /\ {driver_calls[i].fn : i \in first..(first + 3)} = QueryCalls

\* C13 witness: a Backend returned after two devices were queried
C13_TwoDevicesQueried ==
    /\ pc = "returned"
    /\ Len(backend.devices) = 2
    /\ Len(driver_calls) = 14

\* the fields of struct Backend
BackendFields == {"tag", "dynamic_lib", "library", "instance", "inst_pointers",
                  "functions", "devices"}

\* C14: whenever CreateInstance reads an application-info record, the
\* record and the two name buffers it points at are alive; the Backend that
\* create() returns has only the fields of struct Backend, and once it is
\* returned the name buffers, the application-info record and the request
\* record are gone with create()'s frame.
C14_NameBuffersScoped ==
    /\ \A i \in DOMAIN driver_calls :
          (Logged(i, "CreateInstance") /\ driver_calls[i].read.present) =>
              ~driver_calls[i].read.dangling
    /\ pc = "create_instance" =>
          /\ create_info.state = "live"
          /\ app_info # None =>
                /\ vk_info.state = "live"
                /\ c_app_name.state = "live"
                /\ c_engine_name.state = "live"
    /\ backend # NoBackend =>
          /\ DOMAIN backend = BackendFields
          /\ c_app_name.state # "live"
          /\ c_engine_name.state # "live"
          /\ vk_info.state # "live"
          /\ create_info.state # "live"

\* C14 witness: a Backend returned by create(Some(info)), the buffers dropped
C14_BuffersDropped ==
    /\ pc = "returned"
    /\ app_info # None
    /\ c_app_name = Dropped
    /\ c_engine_name = Dropped
    /\ \E i \in DOMAIN driver_calls :
          Logged(i, "CreateInstance") /\ driver_calls[i].read.present

\* the buffers submitted by the first n calls of the log, one after another
RECURSIVE SubmittedIn(_)
SubmittedIn(n) ==
    IF n = 0 THEN <<>>
    ELSE IF calls[n].op = "submit" THEN SubmittedIn(n - 1) \o calls[n].arg
    ELSE SubmittedIn(n - 1)

\* every command that was submitted or is waiting in the renderer
CommandsSeen ==
    IF canvas # NoCanvas /\ present_pc = "idle"
    THEN SubmittedIn(Len(calls)) \o canvas.renderer
    ELSE SubmittedIn(Len(calls))

\* C15: the buffer the k-th present() submits holds exactly the commands
\* recorded through access() since the previous present() (since
\* into_canvas() for k = 1), in recording order, none dropped; access() and
\* get_output() make no collaborator call, hand out the canvas's own output,
\* and access() records into the renderer that the next present() submits.
C15_FrameCommandsSubmitted ==
    /\ Len(CommandsSeen) = recorded
    /\ \A j \in DOMAIN CommandsSeen : CommandsSeen[j].id = j
    /\ \A i \in DOMAIN calls :
          calls[i].op = "submit" =>
              \A j \in DOMAIN calls[i].arg :
                  calls[i].arg[j].frame = SubmitIndex(i) - 1
    /\ canvas # NoCanvas =>
          /\ Len(calls) = 1 + 5 * frames + PresentProgress
          /\ present_pc # "idle" =>
                calls[Len(calls) - PresentProgress + 1].arg = canvas.renderer
    /\ ret # NoRet => ret.output = canvas.output

\* C15 witness: two commands recorded and submitted by the second present()
C15_SecondFrameSubmitted ==
    /\ frames = 2
    /\ Len(calls) >= 11
    /\ Len(calls[7].arg) = 2
    /\ calls[2].arg = <<>>
    /\ ret.op = "access"

\* C16: the count EnumeratePhysicalDevices writes back never exceeds the
\* 4-element probe array that is sliced by it, and after a success every
\* element of the slice is a handle the driver wrote; the length set on
\* queue_families is the count the driver wrote back, never exceeds the 4
\* slots allocated, and every slot within it holds a descriptor of that
\* device.
C16_CountsWithinCapacity ==
    /\ num <= ProbeCapacity
    /\ \A i \in DOMAIN driver_calls :
          Logged(i, "EnumeratePhysicalDevices") =>
              /\ driver_calls[i].count_in = ProbeCapacity
              /\ driver_calls[i].count_out <= ProbeCapacity
              /\ num = driver_calls[i].count_out
              /\ Len(physical_devices) = ProbeCapacity
              /\ driver_calls[i].status = "SUCCESS" =>
                    \A k \in 1..num : physical_devices[k] # NullHandle
    /\ \A i \in DOMAIN driver_calls :
          Logged(i, "GetPhysicalDeviceQueueFamilyProperties") =>
              /\ driver_calls[i].count_in = QueueFamilyCapacity
              /\ driver_calls[i].count_out <= QueueFamilyCapacity
              /\ \A k \in DOMAIN devices :
                    devices[k].device = driver_calls[i].device =>
                        Len(devices[k].queue_families) = driver_calls[i].count_out
    /\ \A k \in DOMAIN devices :
          /\ Len(devices[k].queue_families) <= QueueFamilyCapacity
          /\ \A q \in DOMAIN devices[k].queue_families :
                devices[k].queue_families[q]
                    = [device |-> devices[k].device, index |-> q]

\* C16 witness: a device with more queue families than slots was queried,
\* on a driver whose devices fill the probe array
C16_CapacityReached ==
    /\ num = ProbeCapacity
    /\ \E k \in DOMAIN devices : Len(devices[k].queue_families) = QueueFamilyCapacity
    /\ \E i \in DOMAIN driver_calls :
          /\ Logged(i, "GetPhysicalDeviceQueueFamilyProperties")
          /\ driver_calls[i].avail > QueueFamilyCapacity

====
